---- MODULE Spec2Model ----
(***************************************************************************)
(* Status-update / notification pipeline of the civic-complaint admin      *)
(* portal: ComplaintStatusService, NotificationService, FCMService, the    *)
(* status dropdown components and the onComplaintStatusChange function.    *)
(* Every await of the source is one step, so that concurrent handlers      *)
(* interleave the way the event loop and the document store allow.         *)
(***************************************************************************)
EXTENDS Integers, Sequences, FiniteSets, TLC

\* ---------------------------------------------------------------- bounds
\* handlers one admin session runs, one after the other, in the
\* notification pipeline (Spec) and in the status service (SpecStatus)
MaxCalls == 1

MaxStatusCalls == 2

\* handlers each of the two concurrent admin sessions runs (SpecConcurrent)
MaxConcurrentCalls == 1

\* rejected store operations and rejected sends in one behaviour
MaxFaults == 1

\* deliveries of one change event to onComplaintStatusChange (the platform
\* delivers at least once)
MaxDeliveries == 2

\* onComplaintStatusChange invocations running at the same time
MaxActiveTriggers == 1

\* advances of the wall clock in one behaviour (SpecSLA, SpecEscalation)
MaxTicks == 4

\* advances of the date in one behaviour (SpecCleanup)
MaxDayTicks == 2

\* runs of cleanupNotificationLogs in one behaviour
MaxRuns == 1

\* firings of the 30-second timer of one subscription
MaxTimerTicks == 4

\* renders of the complaint's Dashboard row in one session
MaxRenders == 2

\* calls of checkAndNotifyBreaches in one session
MaxChecks == 2

\* admin sessions (browser tabs); a session runs one handler at a time
\* (the isUpdating / isLoading guards of the components)
Admins == {1, 2}

\* ------------------------------------------------------------ vocabulary
Undefined == "undefined"

ComplaintStatus == {"submitted", "in-progress", "resolved", "closed"}

ComplaintIds == {"ISS-0001"}

UserId == "u1"

Tokens == {"t1"}

NotesValues == {Undefined, "", "fixed"}

ImageValues == {Undefined, "imgX"}

\* JavaScript truthiness of an optional string (undefined and "" are falsy)
Truthy(s) == s /= Undefined /\ s /= ""

\* a || b on optional strings
OrElse(a, b) == IF Truthy(a) THEN a ELSE b

AdminOf(i) == IF i = 1 THEN "admin1" ELSE IF i = 2 THEN "admin2" ELSE "admin3"

\* ------------------------------------------------------------------ state
VARIABLES
    complaints,        \* collection complaints: id -> document
    statusHistory,     \* collection statusHistory, in append order
    fcmTokens,         \* document fcmTokens/{userId}_web
    notificationLogs,  \* collection notificationLogs, in append order
    sends,             \* send requests submitted to the messaging service
    calls,             \* client-side handlers in flight (one per slot)
    triggers,          \* onComplaintStatusChange invocations still running
    returned,          \* the invocation that returned last
    faults,            \* store operations and sends rejected so far
    sla,               \* the wall clock and the SLA view of one complaint
    cleanupJob,        \* the run of cleanupNotificationLogs
    proofModal,        \* ProofOfResolutionModal of the admin session
    statsListener      \* a subscription of listenToDashboardStats

vars == <<complaints, statusHistory, fcmTokens, notificationLogs, sends,
          calls, triggers, returned, faults, sla, cleanupJob, proofModal,
          statsListener>>

NoComplaint ==
    [exists |-> FALSE, status |-> Undefined, userId |-> Undefined,
     updatedBy |-> Undefined, assignedTo |-> Undefined,
     department |-> Undefined, lastUpdateNotes |-> Undefined,
     resolvedImageBase64 |-> Undefined, resolvedBy |-> Undefined,
     resolvedAt |-> FALSE, writer |-> 0, writes |-> 0]

NoToken == [exists |-> FALSE, token |-> Undefined, isActive |-> FALSE]

IdleCall ==
    [op |-> "idle", pc |-> "idle", id |-> "ISS-0001", status |-> "submitted",
     notes |-> Undefined, image |-> Undefined, assignedTo |-> Undefined,
     department |-> Undefined, previousStatus |-> Undefined,
     type |-> Undefined, token |-> Undefined, result |-> "none",
     sawMissing |-> FALSE, wrote |-> FALSE, tokenSeen |-> "none",
     lookups |-> 0, hist |-> FALSE, beforeStatus |-> Undefined,
     writeRejected |-> FALSE, auth |-> TRUE, missing |-> {}, n |-> 0]

\* a session that is not open
OffCall == [IdleCall EXCEPT !.op = "off", !.pc = "off"]

\* the session may start its next handler
CanStart(i) ==
    /\ calls[i].pc \in {"idle", "done"}
    /\ calls[i].n > 0

\* the record of a handler that session i starts now (n: handlers the
\* session may still start afterwards)
Fresh(i, op, id) ==
    [IdleCall EXCEPT !.op = op, !.id = id, !.n = calls[i].n - 1]

\* change event handed to onComplaintStatusChange for a write of `after`
\* over `before` (cause: the client call that wrote, 0 for the citizen app;
\* attempt: which delivery of the event this invocation is; responses: how
\* many earlier deliveries of the event ended with a sent notification)
NewTrigger(id, before, after, cause, n) ==
    [id |-> id, oldExists |-> before.exists, oldStatus |-> before.status,
     newExists |-> after.exists,
     newStatus |-> after.status, userId |-> after.userId, cause |-> cause,
     causeN |-> n, attempt |-> 1, responses |-> 0,
     pc |-> "pending", type |-> Undefined,
     token |-> Undefined, tokenSeen |-> "none",
     sendTried |-> FALSE, sent |-> FALSE, result |-> "none"]

NoTrigger == [NewTrigger("ISS-0001", NoComplaint, NoComplaint, 0, 0)
                EXCEPT !.pc = "none"]

\* the wall clock (now, milliseconds) and the complaint object the SLA
\* functions are evaluated on, with the results of the last two evaluations;
\* escalatedToHigherAuthority is the field of that object, display the last
\* result of getSLAStatusDisplay, and renders, checks, checking, notified
\* and notifiedUnbreached count Dashboard row renders, calls of
\* checkAndNotifyBreaches, calls waiting at their await, invocations of
\* notifyHigherAuthority and whether one of them found the SLA unbreached;
\* days is the date of the wall clock in whole days, to which now adds the
\* time of day
NoSLA ==
    [now |-> 1000, ticks |-> 0, loaded |-> FALSE, createdAt |-> 0,
     status |-> Undefined, priority |-> Undefined,
     seen |-> FALSE, seenTwice |-> FALSE, at |-> 0, prevAt |-> 0,
     left |-> 0, prevLeft |-> 0, breached |-> FALSE, breachedStats |-> FALSE,
     escalatedToHigherAuthority |-> FALSE, renders |-> 0, checks |-> 0,
     checking |-> 0, notified |-> 0, notifiedUnbreached |-> FALSE,
     display |-> [text |-> "none", seconds |-> 0, colorClass |-> "none"],
     displayAt |-> 0, days |-> 0, dayTicks |-> 0]

\* a timestamp: whole days and the milliseconds of the time of day
Stamp(days, ms) == [days |-> days, ms |-> ms]

\* the scheduled job before its run (startedAt: the clock at the start of
\* the run; snapshot: positions of the entries the query returned; deleted:
\* entries the run has deleted)
NoCleanup ==
    [pc |-> "idle", runs |-> 0, startedAt |-> Stamp(0, 0),
     cutoffDate |-> Stamp(0, 0), snapshot |-> {}, result |-> "none",
     deleted |-> 0]

\* the proof modal, closed and empty (isOpen: showProofModal of the
\* dropdown; alert: the last alert of updateStatus; pc: where handleSubmit
\* stands)
NoProofModal ==
    [isOpen |-> FALSE, selectedFile |-> Undefined, notes |-> "",
     error |-> Undefined, isUploading |-> FALSE, alert |-> "none",
     pc |-> "idle"]

\* no subscription yet (isActive, interval: the closure variables of
\* listenToDashboardStats; fetches: getDashboardStats calls in flight;
\* unsubscribed: the unsubscribe function has been called, with
\* pendingAtUnsubscribe fetches in flight; callbacks, lateCallbacks:
\* invocations of the callback, and those after unsubscribe; shown: the
\* statistics the callback got last)
NoListener ==
    [subscribed |-> FALSE, isActive |-> FALSE, interval |-> FALSE,
     fetches |-> 0, ticks |-> 0, unsubscribed |-> FALSE,
     pendingAtUnsubscribe |-> 0, callbacks |-> 0, lateCallbacks |-> 0,
     shown |-> "none"]

EmptyStore ==
    /\ sla = NoSLA
    /\ cleanupJob = NoCleanup
    /\ proofModal = NoProofModal
    /\ statsListener = NoListener
    /\ complaints = [c \in ComplaintIds |-> NoComplaint]
    /\ statusHistory = <<>>
    /\ fcmTokens = NoToken
    /\ notificationLogs = <<>>
    /\ sends = <<>>
    /\ triggers = {}
    /\ returned = NoTrigger
    /\ faults = 0

\* one admin session in front of an empty store
Init ==
    /\ EmptyStore
    /\ calls = [i \in Admins |-> IF i = 1 THEN [IdleCall EXCEPT !.n = MaxCalls]
                                 ELSE OffCall]

InitStatus ==
    /\ EmptyStore
    /\ calls = [i \in Admins |-> IF i = 1
                                 THEN [IdleCall EXCEPT !.n = MaxStatusCalls]
                                 ELSE OffCall]

\* ------------------------------------------------------- document store
\* a store operation or a send is answered: ok, or rejected (the SDK call
\* throws into the nearest catch)
Charge(ok) ==
    /\ ~ok => faults < MaxFaults
    /\ faults' = IF ok THEN faults ELSE faults + 1

\* a committed write to complaints/{id}: the document changes and the
\* onWrite trigger is scheduled for it (writer: the session whose write was
\* applied last, 0 for the citizen app; writes: status writes of admin
\* sessions applied so far)
ApplyWrite(id, doc, cause, n) ==
    /\ complaints' = [complaints EXCEPT ![id] =
                        [doc EXCEPT !.writer = cause,
                                    !.writes = IF cause = 0 THEN @ ELSE @ + 1]]
    /\ triggers' = triggers \cup {NewTrigger(id, complaints[id], doc, cause, n)}

\* the citizen app creates the complaint document (status submitted)
CreateComplaint(id) ==
    /\ ~complaints[id].exists
    /\ ApplyWrite(id, [NoComplaint EXCEPT !.exists = TRUE,
                                          !.status = "submitted",
                                          !.userId = UserId], 0, 0)
    /\ UNCHANGED <<statusHistory, fcmTokens, notificationLogs, sends, calls,
                   returned, faults, sla, cleanupJob, proofModal,
                   statsListener>>

\* --------------------------------------------- ComplaintStatusService
\* a variant of MergeUpdateFields that leaves out the resolved fields of
\* lines 66-71; the round trip of C5 must tell it from the code
MergeUpdateFieldsNoResolved(doc, c, updatedBy) ==
    [doc EXCEPT
       !.status = c.status,
       !.updatedBy = updatedBy,
       !.assignedTo = IF Truthy(c.assignedTo) THEN c.assignedTo ELSE @,
       !.department = IF Truthy(c.department) THEN c.department ELSE @,
       !.lastUpdateNotes = IF Truthy(c.notes) THEN c.notes ELSE @]

\* updateFields of updateComplaintStatus merged into the current document
MergeUpdateFields(doc, c, updatedBy) ==
    LET base == [doc EXCEPT
                   !.status = c.status,
                   !.updatedBy = updatedBy,
                   !.assignedTo = IF Truthy(c.assignedTo) THEN c.assignedTo ELSE @,
                   !.department = IF Truthy(c.department) THEN c.department ELSE @,
                   !.lastUpdateNotes = IF Truthy(c.notes) THEN c.notes ELSE @]
    IN IF c.status = "resolved"
       THEN [base EXCEPT !.resolvedImageBase64 = c.image,
                         !.resolvedBy = updatedBy,
                         !.resolvedAt = TRUE]
       ELSE base

\* the entry updateComplaintStatus hands to addStatusHistory
HistoryEntry(i, c) ==
    [complaintId |-> c.id, previousStatus |-> c.previousStatus,
     newStatus |-> c.status, updatedBy |-> AdminOf(i), notes |-> c.notes,
     by |-> i, n |-> c.n]

\* statusData built by StatusDropdown.handleStatusChange
DropdownInput(newStatus) ==
    [status |-> newStatus, notes |-> "manual", image |-> Undefined]

\* inputs of a direct call of updateComplaintStatus(complaintId, statusData);
\* resolvedImageUrl is read for status resolved only
StatusInputs ==
    { [status |-> s, notes |-> n, image |-> x] :
        s \in ComplaintStatus, n \in NotesValues, x \in ImageValues }

\* the store answers an existence read of complaints/{id} with "no such
\* document"
AnswersMissing(id, readOk) == readOk /\ ~complaints[id].exists

\* a variant of GetDocStep without the existence check; C2 must tell it
\* from the code
GetDocStepUnchecked(c, readOk) ==
    IF ~readOk
    THEN [c EXCEPT !.pc = "done", !.result = "error"]
    ELSE [c EXCEPT !.pc = "updateDoc",
                   !.previousStatus = OrElse(complaints[c.id].status,
                                             "submitted")]

\* getDoc(userComplaintRef) and the existence check of updateComplaintStatus
GetDocStep(c, readOk) ==
    LET doc == complaints[c.id]
    IN IF ~readOk
       THEN [c EXCEPT !.pc = "done", !.result = "error"]
       ELSE IF ~doc.exists
       THEN [c EXCEPT !.pc = "done", !.result = "notfound"]
       ELSE [c EXCEPT !.pc = "updateDoc",
                      !.previousStatus = OrElse(doc.status, "submitted")]

\* updateComplaintStatus is called directly with statusData `in` and runs
\* up to the answer of its getDoc
StatusStart(i, id, in) ==
    /\ CanStart(i)
    /\ in.status /= "resolved" => in.image = Undefined
    /\ \E readOk \in BOOLEAN :
         /\ Charge(readOk)
         /\ calls' = [calls EXCEPT ![i] =
                        GetDocStep([Fresh(i, "status", id) EXCEPT
                                      !.status = in.status, !.notes = in.notes,
                                      !.image = in.image,
                                      !.sawMissing = AnswersMissing(id, readOk)],
                                   readOk)]
    /\ UNCHANGED <<complaints, statusHistory, fcmTokens, notificationLogs,
                   sends, triggers, returned, sla, cleanupJob, proofModal,
                   statsListener>>

\* updateComplaintStatus called from updateStatusAndNotify: getDoc
UpdGetDoc(i) ==
    /\ calls[i].pc = "getDoc"
    /\ \E readOk \in BOOLEAN :
         /\ Charge(readOk)
         /\ calls' = [calls EXCEPT ![i] =
                        GetDocStep([calls[i] EXCEPT !.sawMissing =
                                      AnswersMissing(calls[i].id, readOk)],
                                   readOk)]
    /\ UNCHANGED <<complaints, statusHistory, fcmTokens, notificationLogs,
                   sends, triggers, returned, sla, cleanupJob, proofModal,
                   statsListener>>

\* a variant of UpdateRejected that drops the error and goes on to the
\* history entry; C11 must tell it from the code
UpdateRejectedSwallowed(c) == [c EXCEPT !.pc = "addHistory"]

\* the catch of updateComplaintStatus for a rejected updateDoc: rethrown as
\* "Failed to update complaint status"; updateStatusAndNotify rethrows it
UpdateRejected(c) == [c EXCEPT !.pc = "done", !.result = "error"]

\* updateDoc(userComplaintRef, updateFields)
UpdUpdateDoc(i) ==
    LET c == calls[i]
    IN /\ c.pc = "updateDoc"
       /\ \/ /\ complaints[c.id].exists
             /\ Charge(TRUE)
             /\ ApplyWrite(c.id, MergeUpdateFields(complaints[c.id], c, AdminOf(i)),
                           i, c.n)
             /\ calls' = [calls EXCEPT ![i] =
                           [c EXCEPT !.pc = "addHistory", !.wrote = TRUE,
                                     !.beforeStatus = complaints[c.id].status]]
          \/ /\ Charge(FALSE)
             /\ calls' = [calls EXCEPT ![i] =
                           UpdateRejected([c EXCEPT !.writeRejected = TRUE])]
             /\ UNCHANGED <<complaints, triggers>>
       /\ UNCHANGED <<statusHistory, fcmTokens, notificationLogs, sends,
                      returned, sla, cleanupJob, proofModal, statsListener>>

\* a variant of addStatusHistory that keeps one entry per complaint; C16
\* must tell it from the code
addStatusHistoryOncePerComplaint(i, histOk) ==
    IF histOk /\ \A k \in 1..Len(statusHistory) :
                   statusHistory[k].complaintId /= calls[i].id
    THEN Append(statusHistory, HistoryEntry(i, calls[i]))
    ELSE statusHistory

\* addStatusHistory: addDoc on statusHistory, errors are logged and dropped
addStatusHistory(i, histOk) ==
    IF histOk THEN Append(statusHistory, HistoryEntry(i, calls[i]))
    ELSE statusHistory

\* the tail of updateComplaintStatus after the complaint write
UpdAddHistory(i) ==
    LET c == calls[i]
    IN /\ c.pc = "addHistory"
       /\ \E histOk \in BOOLEAN :
            /\ Charge(histOk)
            /\ statusHistory' = addStatusHistory(i, histOk)
            /\ calls' = [calls EXCEPT ![i] =
                 IF c.op = "notify"
                 THEN [c EXCEPT !.pc = "refetch", !.hist = histOk]
                 ELSE [c EXCEPT !.pc = "done", !.result = "ok",
                                !.hist = histOk]]
       /\ UNCHANGED <<complaints, fcmTokens, notificationLogs, sends, triggers,
                      returned, sla, cleanupJob, proofModal, statsListener>>

\* ------------------------------------------------------------ FCMService
\* title chosen by generateNotificationContent (client and function agree)
generateNotificationContent(type) ==
    CASE type = "confirmation"   -> "Complaint Submitted Successfully"
      [] type = "acknowledgment" -> "Complaint Acknowledged"
      [] type = "resolution"     -> "Complaint Resolved"
      [] OTHER                   -> "Complaint Update"

\* the NotificationLog written by FCMService.sendNotification
ClientLog(i, c, status) ==
    [userId |-> UserId, complaintId |-> c.id, type |-> c.type,
     title |-> generateNotificationContent(c.type), status |-> status,
     fcmToken |-> IF status = "sent" THEN c.token ELSE Undefined,
     path |-> IF c.op = "test" THEN "test" ELSE "direct", by |-> i,
     n |-> c.n, wrote |-> c.wrote, oldExists |-> c.wrote,
     oldStatus |-> c.beforeStatus,
     newStatus |-> IF c.wrote THEN c.status ELSE Undefined,
     sentAt |-> Stamp(sla.days, sla.now), attempt |-> 0]

\* a variant of logNotification that keeps failed entries only; the
\* scenario of C14 must tell it from the code
logNotificationFailedOnly(log, writeOk) ==
    IF writeOk /\ log.status = "failed" THEN Append(notificationLogs, log)
    ELSE notificationLogs

\* logNotification: addDoc on notificationLogs, errors are logged and dropped
logNotification(log, writeOk) ==
    IF writeOk THEN Append(notificationLogs, log) ELSE notificationLogs

\* the store answers the read of fcmTokens/{userId}_web
TokenAnswer(readOk) ==
    IF ~readOk THEN "failed"
    ELSE IF ~fcmTokens.exists THEN "absent"
    ELSE IF ~fcmTokens.isActive THEN "inactive"
    ELSE "active"

\* a variant of LookupStep without the isActive check; C8 must tell it from
\* the code
LookupStepIgnoresActive(c, answer) ==
    CASE answer = "failed"   -> [c EXCEPT !.pc = "logFailed"]
      [] answer = "absent"   -> [c EXCEPT !.pc = "done", !.result = "ok"]
      [] OTHER               -> [c EXCEPT !.pc = "logSent",
                                          !.token = fcmTokens.token]

\* sendNotification after its token read: return false when the record is
\* missing or inactive, fall into the catch when the read threw
LookupStep(c, answer) ==
    CASE answer = "failed"   -> [c EXCEPT !.pc = "logFailed"]
      [] answer = "absent"   -> [c EXCEPT !.pc = "done", !.result = "ok"]
      [] answer = "inactive" -> [c EXCEPT !.pc = "done", !.result = "ok"]
      [] OTHER               -> [c EXCEPT !.pc = "logSent",
                                          !.token = fcmTokens.token]

\* the call record once the token read of its dispatch was answered
Looked(c, answer) == [c EXCEPT !.tokenSeen = answer, !.lookups = @ + 1]

\* the token lookup of sendNotification called from triggerNotification
SendLookup(i) ==
    /\ calls[i].pc = "tokenLookup"
    /\ \E readOk \in BOOLEAN :
         /\ Charge(readOk)
         /\ calls' = [calls EXCEPT ![i] =
                        LookupStep(Looked(calls[i], TokenAnswer(readOk)),
                                   TokenAnswer(readOk))]
    /\ UNCHANGED <<complaints, statusHistory, fcmTokens, notificationLogs,
                   sends, triggers, returned, sla, cleanupJob, proofModal,
                   statsListener>>

\* sendNotification, try branch: the log with status sent is written; no
\* request goes to the messaging service from the client
SendLogSent(i) ==
    LET c == calls[i]
    IN /\ c.pc = "logSent"
       /\ \E writeOk \in BOOLEAN :
            /\ Charge(writeOk)
            /\ notificationLogs' =
                 logNotification(ClientLog(i, c, "sent"), writeOk)
       /\ calls' = [calls EXCEPT ![i] = [c EXCEPT !.pc = "done", !.result = "ok"]]
       /\ UNCHANGED <<complaints, statusHistory, fcmTokens, sends, triggers,
                      returned, sla, cleanupJob, proofModal, statsListener>>

\* sendNotification, catch branch: the log with status failed is written
SendLogFailed(i) ==
    LET c == calls[i]
    IN /\ c.pc = "logFailed"
       /\ \E writeOk \in BOOLEAN :
            /\ Charge(writeOk)
            /\ notificationLogs' =
                 logNotification(ClientLog(i, c, "failed"), writeOk)
       /\ calls' = [calls EXCEPT ![i] = [c EXCEPT !.pc = "done", !.result = "ok"]]
       /\ UNCHANGED <<complaints, statusHistory, fcmTokens, sends, triggers,
                      returned, sla, cleanupJob, proofModal, statsListener>>

\* saveTokenToFirestore: setDoc with merge; a rejected write is logged and
\* dropped and leaves the record as it was
saveTokenToFirestore(token) ==
    /\ fcmTokens' = [exists |-> TRUE, token |-> token, isActive |-> TRUE]
    /\ UNCHANGED <<complaints, statusHistory, notificationLogs, sends, calls,
                   triggers, returned, faults, sla, cleanupJob, proofModal,
                   statsListener>>

\* removeToken: updateDoc (rejected on a missing document); errors are
\* logged and dropped and leave the record as it was
removeToken ==
    /\ fcmTokens.exists
    /\ fcmTokens' = [fcmTokens EXCEPT !.isActive = FALSE]
    /\ UNCHANGED <<complaints, statusHistory, notificationLogs, sends, calls,
                   triggers, returned, faults, sla, cleanupJob, proofModal,
                   statsListener>>

\* --------------------------------------------------- NotificationService
\* notification type picked by triggerNotification from the new status
DirectType(newStatus) ==
    CASE newStatus = "submitted"   -> "confirmation"
      [] newStatus = "in-progress" -> "acknowledgment"
      [] newStatus = "resolved"    -> "resolution"
      [] OTHER                     -> Undefined

\* options of updateStatusAndNotify as submitComplaint, assignComplaint and
\* resolveComplaint build them, and a plain call with status closed
NotifyInputs ==
    { [status |-> "submitted", notes |-> "fixed", assignedTo |-> Undefined,
       department |-> Undefined],
      [status |-> "in-progress", notes |-> "fixed", assignedTo |-> "staff-1",
       department |-> "Public Works"],
      [status |-> "resolved", notes |-> "fixed", assignedTo |-> Undefined,
       department |-> Undefined],
      [status |-> "closed", notes |-> Undefined, assignedTo |-> Undefined,
       department |-> Undefined] }

\* fetchUserComplaintById: the complaint document or null; may throw
fetchUserComplaintById(id, readOk) ==
    IF ~readOk THEN "throw"
    ELSE IF complaints[id].exists THEN "found" ELSE "null"

\* updateStatusAndNotify(complaintId, newStatus, updatedBy, options) is
\* called and runs up to the answer of its first fetch and not-found check
NotifyStart(i, id, in) ==
    /\ CanStart(i)
    /\ \E readOk \in BOOLEAN :
         LET r == fetchUserComplaintById(id, readOk)
             c == [Fresh(i, "notify", id) EXCEPT
                     !.status = in.status, !.notes = in.notes,
                     !.assignedTo = in.assignedTo,
                     !.department = in.department,
                     !.sawMissing = AnswersMissing(id, readOk)]
         IN /\ Charge(readOk)
            /\ calls' = [calls EXCEPT ![i] =
                 CASE r = "throw" -> [c EXCEPT !.pc = "done", !.result = "error"]
                   [] r = "null"  -> [c EXCEPT !.pc = "done",
                                               !.result = "notfound"]
                   [] OTHER       -> [c EXCEPT !.pc = "getDoc"]]
    /\ UNCHANGED <<complaints, statusHistory, fcmTokens, notificationLogs,
                   sends, triggers, returned, sla, cleanupJob, proofModal,
                   statsListener>>

\* a variant of DispatchError that rethrows into the catch of
\* updateStatusAndNotify; C9 must tell it from the code
DispatchErrorRethrown(c) == [c EXCEPT !.pc = "done", !.result = "error"]

\* what triggerNotification does with an error of its try block: it is
\* logged and dropped, updateStatusAndNotify goes on and resolves
DispatchError(c) == [c EXCEPT !.pc = "done", !.result = "ok"]

\* triggerNotification up to the call of sendNotification: re-read the
\* complaint, pick the type
triggerNotification(i) ==
    LET c == calls[i]
    IN /\ c.pc = "refetch"
       /\ \E readOk \in BOOLEAN :
            LET r == fetchUserComplaintById(c.id, readOk)
                t == DirectType(c.status)
            IN /\ Charge(readOk)
               /\ calls' = [calls EXCEPT ![i] =
                    IF r = "throw" THEN DispatchError(c)
                    ELSE IF r = "null" \/ t = Undefined
                    THEN [c EXCEPT !.pc = "done", !.result = "ok"]
                    ELSE [c EXCEPT !.pc = "tokenLookup", !.type = t]]
       /\ UNCHANGED <<complaints, statusHistory, fcmTokens, notificationLogs,
                      sends, triggers, returned, sla, cleanupJob, proofModal,
                      statsListener>>

NotificationTypes == {"confirmation", "acknowledgment", "resolution"}

\* sendTestNotification(userId, type) for the fixed complaint TEST-001,
\* up to the answer of the token lookup
sendTestNotification(i, type) ==
    /\ CanStart(i)
    /\ \E readOk \in BOOLEAN :
         /\ Charge(readOk)
         /\ calls' = [calls EXCEPT ![i] =
                        LookupStep(Looked([Fresh(i, "test", "TEST-001") EXCEPT
                                             !.type = type],
                                          TokenAnswer(readOk)),
                                   TokenAnswer(readOk))]
    /\ UNCHANGED <<complaints, statusHistory, fcmTokens, notificationLogs,
                   sends, triggers, returned, sla, cleanupJob, proofModal,
                   statsListener>>

\* ---------------------------------------------------- StatusDropdownDebug
\* handleStatusChange of the debug dropdown, up to the answer of its
\* existence check
DebugStart(i, id, newStatus) ==
    /\ CanStart(i)
    /\ \E readOk \in BOOLEAN :
         LET c == [Fresh(i, "debug", id) EXCEPT
                     !.status = newStatus, !.notes = "manual",
                     !.sawMissing = AnswersMissing(id, readOk)]
         IN /\ Charge(readOk)
            /\ calls' = [calls EXCEPT ![i] =
                 IF ~readOk
                 THEN [c EXCEPT !.pc = "done", !.result = "error"]
                 ELSE IF ~complaints[id].exists
                 THEN [c EXCEPT !.pc = "done", !.result = "notfound"]
                 ELSE [c EXCEPT !.pc = "dbgUpdateDoc"]]
    /\ UNCHANGED <<complaints, statusHistory, fcmTokens, notificationLogs,
                   sends, triggers, returned, sla, cleanupJob, proofModal,
                   statsListener>>

\* handleStatusChange of the debug dropdown: updateDoc without the service
DebugUpdateDoc(i) ==
    LET c == calls[i]
    IN /\ c.pc = "dbgUpdateDoc"
       /\ \/ /\ complaints[c.id].exists
             /\ Charge(TRUE)
             /\ ApplyWrite(c.id, [complaints[c.id] EXCEPT
                                    !.status = c.status,
                                    !.updatedBy = AdminOf(i),
                                    !.lastUpdateNotes = c.notes], i, c.n)
             /\ calls' = [calls EXCEPT ![i] =
                           [c EXCEPT !.pc = "done", !.result = "ok",
                                     !.wrote = TRUE,
                                     !.beforeStatus = complaints[c.id].status]]
          \/ /\ Charge(FALSE)
             /\ calls' = [calls EXCEPT ![i] = [c EXCEPT !.pc = "done",
                                                        !.result = "error"]]
             /\ UNCHANGED <<complaints, triggers>>
       /\ UNCHANGED <<statusHistory, fcmTokens, notificationLogs, sends,
                      returned, sla, cleanupJob, proofModal, statsListener>>

\* ------------------------- StatusDropdownWithProof, ProofOfResolutionModal
\* what the admin can type into the notes field
TypedNotes == {"", " ", "fixed"}

\* notes.trim()
Trim(notes) == IF notes = " " THEN "" ELSE notes

\* handleStatusChange('resolved'): the proof modal is shown instead of an
\* update
ShowProofModal(i, id) ==
    /\ CanStart(i)
    /\ ~proofModal.isOpen
    /\ complaints[id].exists
    /\ complaints[id].status /= "resolved"
    /\ proofModal' = [proofModal EXCEPT !.isOpen = TRUE, !.pc = "idle"]
    /\ UNCHANGED <<complaints, statusHistory, fcmTokens, notificationLogs,
                   sends, calls, triggers, returned, faults, sla, cleanupJob,
                   statsListener>>

\* handleFileSelect / handleDrop with a valid image
handleFileSelect(file) ==
    /\ proofModal.isOpen
    /\ ~proofModal.isUploading
    /\ proofModal' = [proofModal EXCEPT !.selectedFile = file,
                                        !.error = Undefined, !.pc = "idle"]
    /\ UNCHANGED <<complaints, statusHistory, fcmTokens, notificationLogs,
                   sends, calls, triggers, returned, faults, sla, cleanupJob,
                   statsListener>>

\* the admin edits the notes field
setNotes(notes) ==
    /\ proofModal.isOpen
    /\ ~proofModal.isUploading
    /\ proofModal' = [proofModal EXCEPT !.notes = notes, !.pc = "idle"]
    /\ UNCHANGED <<complaints, statusHistory, fcmTokens, notificationLogs,
                   sends, calls, triggers, returned, faults, sla, cleanupJob,
                   statsListener>>

\* ProofOfResolutionModal.handleSubmit up to its first await: the two
\* validations, then isUploading and the image conversion
handleSubmit ==
    /\ proofModal.isOpen
    /\ ~proofModal.isUploading
    /\ proofModal' =
         IF proofModal.selectedFile = Undefined
         THEN [proofModal EXCEPT !.error = "select-image", !.pc = "idle"]
         ELSE IF ~Truthy(Trim(proofModal.notes))
         THEN [proofModal EXCEPT !.error = "provide-notes", !.pc = "idle"]
         ELSE [proofModal EXCEPT !.isUploading = TRUE, !.error = Undefined,
                                 !.pc = "convert"]
    /\ UNCHANGED <<complaints, statusHistory, fcmTokens, notificationLogs,
                   sends, calls, triggers, returned, faults, sla, cleanupJob,
                   statsListener>>

\* convertImageToBase64 settles: rejected into the catch of handleSubmit
\* (error shown, form kept), or resolved, and then onSubmit, which is
\* handleProofSubmission, calls updateStatus('resolved', image, notes),
\* which runs up to the getDoc of updateComplaintStatus
ProofConvert(i, id) ==
    /\ proofModal.pc = "convert"
    /\ \/ /\ proofModal' = [proofModal EXCEPT !.error = "convert-failed",
                                              !.isUploading = FALSE,
                                              !.pc = "idle"]
          /\ UNCHANGED calls
       \/ /\ CanStart(i)
          /\ proofModal' = [proofModal EXCEPT !.pc = "updating"]
          /\ calls' = [calls EXCEPT ![i] =
               [Fresh(i, "status", id) EXCEPT
                  !.pc = "getDoc", !.status = "resolved",
                  !.notes = proofModal.notes,
                  !.image = proofModal.selectedFile]]
    /\ UNCHANGED <<complaints, statusHistory, fcmTokens, notificationLogs,
                   sends, triggers, returned, faults, sla, cleanupJob,
                   statsListener>>

\* the modal once updateComplaintStatus has settled with `result`:
\* updateStatus alerts success or, in its catch, the failure, and returns
\* normally either way; handleProofSubmission hides the modal; handleSubmit
\* resets the form, calls onClose and clears isUploading
AfterUpdateStatus(m, result) ==
    [m EXCEPT !.alert = IF result = "ok" THEN "success" ELSE "failure",
              !.isOpen = FALSE, !.selectedFile = Undefined, !.notes = "",
              !.isUploading = FALSE, !.pc = "returned"]

\* updateComplaintStatus has settled and the submission runs to its end
ProofReturn(i) ==
    /\ proofModal.pc = "updating"
    /\ calls[i].op = "status"
    /\ calls[i].pc = "done"
    /\ proofModal' = AfterUpdateStatus(proofModal, calls[i].result)
    /\ UNCHANGED <<complaints, statusHistory, fcmTokens, notificationLogs,
                   sends, calls, triggers, returned, faults, sla, cleanupJob,
                   statsListener>>

\* handleClose: the close button, disabled while uploading
handleClose ==
    /\ proofModal.isOpen
    /\ ~proofModal.isUploading
    /\ proofModal' = [proofModal EXCEPT !.selectedFile = Undefined,
                                        !.notes = "", !.error = Undefined,
                                        !.isOpen = FALSE, !.pc = "idle"]
    /\ UNCHANGED <<complaints, statusHistory, fcmTokens, notificationLogs,
                   sends, calls, triggers, returned, faults, sla, cleanupJob,
                   statsListener>>

\* ----------------------------------------- onComplaintStatusChange (function)
\* a variant of TriggerType without the comparison of old and new status;
\* C12 must tell it from the code
TriggerTypeIgnoresOld(t) ==
    IF ~t.oldExists THEN "confirmation"
    ELSE CASE t.newStatus = "in-progress" -> "acknowledgment"
           [] t.newStatus = "resolved"    -> "resolution"
           [] OTHER                       -> Undefined

\* notificationType derived from the change event
TriggerType(t) ==
    IF ~t.oldExists THEN "confirmation"
    ELSE IF t.oldStatus /= t.newStatus
    THEN CASE t.newStatus = "in-progress" -> "acknowledgment"
           [] t.newStatus = "resolved"    -> "resolution"
           [] OTHER                       -> Undefined
    ELSE Undefined

\* a variant of TriggerSentLog that marks the entry written after an
\* accepted send as failed; C25 must tell it from the code
TriggerSentLogAsFailed(t) ==
    [userId |-> t.userId, complaintId |-> t.id, type |-> t.type,
     title |-> generateNotificationContent(t.type), status |-> "failed",
     fcmToken |-> t.token, path |-> "trigger", by |-> t.cause,
     n |-> t.causeN, wrote |-> TRUE, oldExists |-> t.oldExists,
     oldStatus |-> t.oldStatus, newStatus |-> t.newStatus,
     sentAt |-> Stamp(sla.days, sla.now), attempt |-> t.attempt]

\* the notificationLogs document of the success branch
TriggerSentLog(t) ==
    [userId |-> t.userId, complaintId |-> t.id, type |-> t.type,
     title |-> generateNotificationContent(t.type), status |-> "sent",
     fcmToken |-> t.token, path |-> "trigger", by |-> t.cause,
     n |-> t.causeN, wrote |-> TRUE, oldExists |-> t.oldExists,
     oldStatus |-> t.oldStatus, newStatus |-> t.newStatus,
     sentAt |-> Stamp(sla.days, sla.now), attempt |-> t.attempt]

\* invocations between their token lookup and their return
ActiveTriggers ==
    Cardinality({t \in triggers : t.pc \in {"send", "logSent"}})

\* the invocation goes on to its next await
TriggerStep(t, t2) ==
    /\ triggers' = (triggers \ {t}) \cup {t2}
    /\ UNCHANGED returned

\* the invocation t ends as t2: it returns (result "null" or "response")
\* or rejects (result "throw")
TriggerReturn(t, t2) ==
    /\ triggers' = triggers \ {t}
    /\ returned' = [t2 EXCEPT !.pc = "done"]

\* the catch branch: newData is a const of the try block and out of scope
\* in the catch, so evaluating newData?.userId throws a ReferenceError
\* before the add of the failed entry; the invocation rejects
TriggerCatch(t) == [t EXCEPT !.pc = "done", !.result = "throw"]

\* a variant of TriggerLookup without the isActive check; C22 must tell it
\* from the code
TriggerLookupIgnoresActive(t, answer) ==
    CASE answer = "failed"   -> TriggerCatch(t)
      [] answer = "absent"   -> [t EXCEPT !.pc = "done", !.result = "null"]
      [] OTHER               -> [t EXCEPT !.pc = "send",
                                          !.token = fcmTokens.token]

\* the handler after its token read: return null when the record is
\* missing or inactive, fall into the catch when the read threw
TriggerLookup(t, answer) ==
    CASE answer = "failed"   -> TriggerCatch(t)
      [] answer = "absent"   -> [t EXCEPT !.pc = "done", !.result = "null"]
      [] answer = "inactive" -> [t EXCEPT !.pc = "done", !.result = "null"]
      [] OTHER               -> [t EXCEPT !.pc = "send",
                                          !.token = fcmTokens.token]

\* the early returns of the handler: the document was deleted, it has no
\* userId, or no notification type applies
TriggerEarlyReturn(t) ==
    \/ ~t.newExists
    \/ t.userId = Undefined
    \/ TriggerType(t) = Undefined

\* handler entry: early returns, type derivation and the token lookup
TriggerStart(t) ==
    LET type == TriggerType(t)
    IN /\ t.pc = "pending"
       /\ ActiveTriggers < MaxActiveTriggers
       /\ IF TriggerEarlyReturn(t)
          THEN /\ TriggerReturn(t, [t EXCEPT !.result = "null"])
               /\ UNCHANGED faults
          ELSE \E readOk \in BOOLEAN :
                 LET t2 == TriggerLookup([t EXCEPT !.type = type,
                                             !.tokenSeen = TokenAnswer(readOk)],
                                         TokenAnswer(readOk))
                 IN /\ Charge(readOk)
                    /\ IF t2.pc = "done" THEN TriggerReturn(t, t2)
                       ELSE TriggerStep(t, t2)
       /\ UNCHANGED <<complaints, statusHistory, fcmTokens, notificationLogs,
                      sends, calls, sla, cleanupJob, proofModal,
                      statsListener>>

\* messaging.send(message): accepted, or rejected into the catch branch
TriggerSend(t) ==
    /\ t.pc = "send"
    /\ \E accepted \in BOOLEAN :
         LET t2 == [t EXCEPT !.sendTried = TRUE, !.sent = accepted]
         IN /\ Charge(accepted)
            /\ sends' = Append(sends, [token |-> t.token, complaintId |-> t.id,
                                       type |-> t.type, by |-> t.cause,
                                       n |-> t.causeN, accepted |-> accepted,
                                       attempt |-> t.attempt])
            /\ IF accepted THEN TriggerStep(t, [t2 EXCEPT !.pc = "logSent"])
               ELSE TriggerReturn(t, TriggerCatch(t2))
    /\ UNCHANGED <<complaints, statusHistory, fcmTokens, notificationLogs,
                   calls, sla, cleanupJob, proofModal, statsListener>>

\* a variant of TriggerLogSent that is idempotent: it adds no entry when
\* the log already holds one for the change event; C15 must tell it from
\* the code
TriggerLogSentOnce(t) ==
    /\ t.pc = "logSent"
    /\ \/ /\ Charge(TRUE)
          /\ notificationLogs' =
               IF \E k \in 1..Len(notificationLogs) :
                     /\ notificationLogs[k].path = "trigger"
                     /\ notificationLogs[k].complaintId = t.id
                     /\ notificationLogs[k].by = t.cause
                     /\ notificationLogs[k].n = t.causeN
               THEN notificationLogs
               ELSE Append(notificationLogs, TriggerSentLog(t))
          /\ TriggerReturn(t, [t EXCEPT !.result = "response"])
       \/ /\ Charge(FALSE)
          /\ TriggerReturn(t, TriggerCatch(t))
          /\ UNCHANGED notificationLogs
    /\ UNCHANGED <<complaints, statusHistory, fcmTokens, sends, calls, sla,
                   cleanupJob, proofModal, statsListener>>

\* db.collection('notificationLogs').add of the success branch; a rejected
\* add is thrown into the catch branch
TriggerLogSent(t) ==
    /\ t.pc = "logSent"
    /\ \/ /\ Charge(TRUE)
          /\ notificationLogs' = Append(notificationLogs, TriggerSentLog(t))
          /\ TriggerReturn(t, [t EXCEPT !.result = "response"])
       \/ /\ Charge(FALSE)
          /\ TriggerReturn(t, TriggerCatch(t))
          /\ UNCHANGED notificationLogs
    /\ UNCHANGED <<complaints, statusHistory, fcmTokens, sends, calls, sla,
                   cleanupJob, proofModal, statsListener>>

\* ------------------------------------------ sendCustomNotification (function)
\* the required fields of the request data
RequiredFields == {"userId", "complaintId", "title", "body"}

\* values of data.type in a request: left out, a notification kind, or any
\* other string the caller chooses
RequestTypes == {Undefined, "resolution", "reminder"}

\* the catch of sendCustomNotification: whatever was thrown inside the try,
\* the HttpsErrors not-found and failed-precondition of the try included,
\* is rethrown as HttpsError('internal', error.message)
CustomCatch(c, thrown) == [c EXCEPT !.pc = "done", !.result = "internal"]

\* the callable after the answer of its token read
CustomLookup(c, answer) ==
    CASE answer = "failed"   -> CustomCatch(c, "error")
      [] answer = "absent"   -> CustomCatch(c, "not-found")
      [] answer = "inactive" -> CustomCatch(c, "failed-precondition")
      [] OTHER               -> [c EXCEPT !.pc = "customSend",
                                          !.token = fcmTokens.token]

\* sendCustomNotification(data, context) is called and runs up to the
\* answer of its token read: authentication check, required fields
\* (missing: the required fields the request leaves out)
CustomStart(i, auth, missing, type) ==
    /\ CanStart(i)
    /\ LET c == [Fresh(i, "custom", "ISS-0001") EXCEPT
                   !.auth = auth, !.missing = missing, !.type = type]
       IN IF ~auth
          THEN /\ calls' = [calls EXCEPT ![i] =
                             [c EXCEPT !.pc = "done",
                                       !.result = "unauthenticated"]]
               /\ UNCHANGED faults
          ELSE IF missing /= {}
          THEN /\ calls' = [calls EXCEPT ![i] =
                             [c EXCEPT !.pc = "done",
                                       !.result = "invalid-argument"]]
               /\ UNCHANGED faults
          ELSE \E readOk \in BOOLEAN :
                 /\ Charge(readOk)
                 /\ calls' = [calls EXCEPT ![i] =
                      CustomLookup(Looked(c, TokenAnswer(readOk)),
                                   TokenAnswer(readOk))]
    /\ UNCHANGED <<complaints, statusHistory, fcmTokens, notificationLogs,
                   sends, triggers, returned, sla, cleanupJob, proofModal,
                   statsListener>>

\* messaging.send(message) of the callable
CustomSend(i) ==
    LET c == calls[i]
    IN /\ c.pc = "customSend"
       /\ \E accepted \in BOOLEAN :
            /\ Charge(accepted)
            /\ sends' = Append(sends,
                 [token |-> c.token, complaintId |-> c.id,
                  type |-> OrElse(c.type, "custom"), by |-> i, n |-> c.n,
                  accepted |-> accepted, attempt |-> 0])
            /\ calls' = [calls EXCEPT ![i] =
                 IF accepted THEN [c EXCEPT !.pc = "customLog"]
                 ELSE CustomCatch(c, "error")]
       /\ UNCHANGED <<complaints, statusHistory, fcmTokens, notificationLogs,
                      triggers, returned, sla, cleanupJob, proofModal,
                      statsListener>>

\* notificationLogs.add of the callable and its return value
CustomLog(i) ==
    LET c == calls[i]
    IN /\ c.pc = "customLog"
       /\ \/ /\ Charge(TRUE)
             /\ notificationLogs' = Append(notificationLogs,
                  [ClientLog(i, c, "sent") EXCEPT
                     !.type = OrElse(c.type, "custom"), !.title = "custom",
                     !.path = "custom"])
             /\ calls' = [calls EXCEPT ![i] =
                           [c EXCEPT !.pc = "done", !.result = "success"]]
          \/ /\ Charge(FALSE)
             /\ calls' = [calls EXCEPT ![i] = CustomCatch(c, "error")]
             /\ UNCHANGED notificationLogs
       /\ UNCHANGED <<complaints, statusHistory, fcmTokens, sends, triggers,
                      returned, sla, cleanupJob, proofModal, statsListener>>

\* ------------------------------------------ cleanupNotificationLogs (function)
\* timestamp a is before timestamp b (the time of day stays below one day)
Earlier(a, b) ==
    \/ a.days < b.days
    \/ a.days = b.days /\ a.ms < b.ms

\* cutoffDate.setDate(cutoffDate.getDate() - 30)
CutoffDate(now) == Stamp(now.days - 30, now.ms)

\* a variant of oldLogsQuery that also returns the entries sent at the
\* cutoff date itself; C24 must tell it from the code
oldLogsQueryInclusive(cutoffDate) ==
    { k \in 1..Len(notificationLogs) :
        ~Earlier(cutoffDate, notificationLogs[k].sentAt) }

\* db.collection('notificationLogs').where('sentAt', '<', cutoffDate):
\* the positions of the matching entries
oldLogsQuery(cutoffDate) ==
    { k \in 1..Len(notificationLogs) :
        Earlier(notificationLogs[k].sentAt, cutoffDate) }

\* the log without the entries at the positions in snapshot
BatchDelete(snapshot) ==
    LET keep[k \in 0..Len(notificationLogs)] ==
          IF k = 0 THEN <<>>
          ELSE IF k \in snapshot THEN keep[k - 1]
          ELSE Append(keep[k - 1], notificationLogs[k])
    IN keep[Len(notificationLogs)]

\* the scheduler runs the job: cutoff date, query and its answer; an empty
\* snapshot and a rejected query both end the run
CleanupQuery ==
    /\ cleanupJob.pc \in {"idle", "done"}
    /\ cleanupJob.runs < MaxRuns
    /\ \E readOk \in BOOLEAN :
         LET now == Stamp(sla.days, sla.now)
             snapshot == oldLogsQuery(CutoffDate(now))
             job == [cleanupJob EXCEPT !.runs = @ + 1, !.startedAt = now,
                                       !.cutoffDate = CutoffDate(now),
                                       !.deleted = 0, !.snapshot = {},
                                       !.result = "none"]
         IN /\ Charge(readOk)
            /\ cleanupJob' =
                 IF ~readOk
                 THEN [job EXCEPT !.pc = "done", !.result = "error"]
                 ELSE IF snapshot = {}
                 THEN [job EXCEPT !.pc = "done", !.result = "empty"]
                 ELSE [job EXCEPT !.pc = "commit", !.snapshot = snapshot]
    /\ UNCHANGED <<complaints, statusHistory, fcmTokens, notificationLogs,
                   sends, calls, triggers, returned, sla, proofModal,
                   statsListener>>

\* batch.commit(): every entry of the snapshot is deleted, or the commit is
\* rejected and none is
CleanupCommit ==
    /\ cleanupJob.pc = "commit"
    /\ \E accepted \in BOOLEAN :
         /\ Charge(accepted)
         /\ notificationLogs' =
              IF accepted THEN BatchDelete(cleanupJob.snapshot)
              ELSE notificationLogs
         /\ cleanupJob' =
              IF accepted
              THEN [cleanupJob EXCEPT
                      !.pc = "done", !.result = "deleted",
                      !.deleted = Cardinality(cleanupJob.snapshot)]
              ELSE [cleanupJob EXCEPT !.pc = "done", !.result = "error"]
    /\ UNCHANGED <<complaints, statusHistory, fcmTokens, sends, calls,
                   triggers, returned, sla, proofModal, statsListener>>

\* date advances between two runs of the scheduler: a day, thirty days
DaySteps == {1, 30}

\* the date advances
TickDays(n) ==
    /\ sla.dayTicks < MaxDayTicks
    /\ sla' = [sla EXCEPT !.days = @ + n, !.dayTicks = @ + 1]
    /\ UNCHANGED <<complaints, statusHistory, fcmTokens, notificationLogs,
                   sends, calls, triggers, returned, faults, cleanupJob,
                   proofModal, statsListener>>

\* -------------------------------- DashboardStatsService.listenToDashboardStats
\* the listener after callback(stats)
Called(l, stats) ==
    [l EXCEPT !.callbacks = @ + 1, !.shown = stats,
              !.lateCallbacks = IF l.unsubscribed THEN @ + 1 ELSE @]

\* updateStatsStart: if (!isActive) return; otherwise getDashboardStats is
\* called and awaited
updateStatsStart(l) ==
    IF ~l.isActive THEN l ELSE [l EXCEPT !.fetches = @ + 1]

\* a variant of updateStatsSettled without the isActive checks after the
\* await; C29 must tell it from the code
updateStatsSettledUnchecked(l, fetched) ==
    Called([l EXCEPT !.fetches = @ - 1],
           IF fetched THEN "stats" ELSE "zero")

\* updateStats after its await: the statistics (or, in the catch, the zero
\* statistics) go to the callback if the subscription is still active
updateStatsSettled(l, fetched) ==
    LET settled == [l EXCEPT !.fetches = @ - 1]
    IN IF l.isActive
       THEN Called(settled, IF fetched THEN "stats" ELSE "zero")
       ELSE settled

\* listenToDashboardStats(callback, filters): the initial load starts and
\* the interval is set
listenToDashboardStats ==
    /\ ~statsListener.subscribed
    /\ statsListener' =
         updateStatsStart([statsListener EXCEPT !.subscribed = TRUE,
                                                !.isActive = TRUE,
                                                !.interval = TRUE])
    /\ UNCHANGED <<complaints, statusHistory, fcmTokens, notificationLogs,
                   sends, calls, triggers, returned, faults, sla, cleanupJob,
                   proofModal>>

\* the interval fires and runs updateStats
TimerTick ==
    /\ statsListener.interval
    /\ statsListener.ticks < MaxTimerTicks
    /\ statsListener' =
         updateStatsStart([statsListener EXCEPT !.ticks = @ + 1])
    /\ UNCHANGED <<complaints, statusHistory, fcmTokens, notificationLogs,
                   sends, calls, triggers, returned, faults, sla, cleanupJob,
                   proofModal>>

\* a getDashboardStats call in flight settles, resolved or rejected
FetchSettles ==
    /\ statsListener.fetches > 0
    /\ \E readOk \in BOOLEAN :
         /\ Charge(readOk)
         /\ statsListener' = updateStatsSettled(statsListener, readOk)
    /\ UNCHANGED <<complaints, statusHistory, fcmTokens, notificationLogs,
                   sends, calls, triggers, returned, sla, cleanupJob,
                   proofModal>>

\* the unsubscribe function: isActive = false, clearInterval(interval)
unsubscribe ==
    /\ statsListener.subscribed
    /\ statsListener' =
         [statsListener EXCEPT
            !.isActive = FALSE, !.interval = FALSE, !.unsubscribed = TRUE,
            !.pendingAtUnsubscribe =
               IF statsListener.unsubscribed THEN @ ELSE statsListener.fetches]
    /\ UNCHANGED <<complaints, statusHistory, fcmTokens, notificationLogs,
                   sends, calls, triggers, returned, faults, sla, cleanupJob,
                   proofModal>>

\* ------------------------------- SLANotificationService, DashboardStatsService
SLA_SECONDS == 48

\* Math.max(a, b)
Max(a, b) == IF a >= b THEN a ELSE b

\* now.getTime() - createdAt.getTime(), in milliseconds (the code divides
\* by 1000 and compares in seconds)
MillisSinceCreated(c, now) == now - c.createdAt

\* SLANotificationService.isSLABreached
isSLABreached(c, now) == MillisSinceCreated(c, now) > SLA_SECONDS * 1000

\* a variant of getSecondsUntilDeadline without Math.max(0, ...); C20 must
\* tell it from the code
getSecondsUntilDeadlineUnclamped(c, now) ==
    SLA_SECONDS * 1000 - MillisSinceCreated(c, now)

\* SLANotificationService.getSecondsUntilDeadline, as thousandths of a
\* second
getSecondsUntilDeadline(c, now) ==
    Max(0, SLA_SECONDS * 1000 - MillisSinceCreated(c, now))

\* slaHours[priority || 'Medium'] || 72 of DashboardStatsService
slaLimit(priority) ==
    CASE priority = "High"   -> 24
      [] priority = "Medium" -> 72
      [] priority = "Low"    -> 168
      [] OTHER               -> 72

\* DashboardStatsService.isSLABreached (createdAt present)
DashboardIsSLABreached(c, now) ==
    IF c.status = "resolved" THEN FALSE
    ELSE MillisSinceCreated(c, now) > slaLimit(c.priority) * 60 * 60 * 1000

\* clock advances between two renderings: half a second, a second, 47
\* seconds, 30 hours, 100 hours (milliseconds)
ClockSteps == {500, 1000, 47000, 30 * 3600000, 100 * 3600000}

Priorities == {"High", "Low", Undefined}

\* a complaint created now is loaded into the dashboard
SLALoad(status, priority) ==
    /\ ~sla.loaded
    /\ sla' = [sla EXCEPT !.loaded = TRUE, !.createdAt = sla.now,
                          !.status = status, !.priority = priority]
    /\ UNCHANGED <<complaints, statusHistory, fcmTokens, notificationLogs,
                   sends, calls, triggers, returned, faults, cleanupJob,
                   proofModal, statsListener>>

\* the wall clock advances
Tick(d) ==
    /\ sla.ticks < MaxTicks
    /\ sla' = [sla EXCEPT !.now = @ + d, !.ticks = @ + 1]
    /\ UNCHANGED <<complaints, statusHistory, fcmTokens, notificationLogs,
                   sends, calls, triggers, returned, faults, cleanupJob,
                   proofModal, statsListener>>

\* a rendering evaluates the SLA functions on the complaint (new Date() is
\* read once per function; the readings of one rendering are taken equal)
SLAEvaluate ==
    /\ sla.loaded
    /\ sla' = [sla EXCEPT
                 !.seen = TRUE, !.seenTwice = sla.seen,
                 !.prevAt = sla.at, !.at = sla.now,
                 !.prevLeft = sla.left,
                 !.left = getSecondsUntilDeadline(sla, sla.now),
                 !.breached = isSLABreached(sla, sla.now),
                 !.breachedStats = DashboardIsSLABreached(sla, sla.now)]
    /\ UNCHANGED <<complaints, statusHistory, fcmTokens, notificationLogs,
                   sends, calls, triggers, returned, faults, cleanupJob,
                   proofModal, statsListener>>

\* status values of the complaint objects the Dashboard works on: the
\* values of the status pipeline and the capitalised value the Dashboard
\* compares with
DashboardStatuses == ComplaintStatus \cup {"Resolved"}

\* Math.ceil of a number of seconds kept as thousandths
CeilSeconds(ms) == (ms + 999) \div 1000

\* SLANotificationService.getSLAStatusDisplay
getSLAStatusDisplay(c, now) ==
    LET isBreach == isSLABreached(c, now)
        secondsLeft == getSecondsUntilDeadline(c, now)
    IN IF c.status = "Resolved"
       THEN [text |-> "Resolved", seconds |-> 0, colorClass |-> "green"]
       ELSE IF isBreach
       THEN [text |-> "Breached", seconds |-> 0, colorClass |-> "red"]
       ELSE IF secondsLeft < 12 * 1000
       THEN [text |-> "left", seconds |-> CeilSeconds(secondsLeft),
             colorClass |-> "red"]
       ELSE IF secondsLeft < 24 * 1000
       THEN [text |-> "left", seconds |-> CeilSeconds(secondsLeft),
             colorClass |-> "yellow"]
       ELSE [text |-> "left", seconds |-> CeilSeconds(secondsLeft),
             colorClass |-> "green"]

\* the condition under which the higher authority is notified for a
\* complaint object, in checkAndNotifyBreaches and in the Dashboard row
ShouldNotify(c, now) ==
    /\ isSLABreached(c, now)
    /\ c.status /= "Resolved"
    /\ ~c.escalatedToHigherAuthority

\* notifyHigherAuthority(complaint) is invoked (it builds the message,
\* writes it to the console and resolves)
notifyHigherAuthority(c, now) ==
    [c EXCEPT !.notified = @ + 1,
              !.notifiedUnbreached = @ \/ ~isSLABreached(c, now)]

\* the Dashboard renders the row of the complaint: extendedComplaint is a
\* new object with escalatedToHigherAuthority false, the row shows
\* getSLAStatusDisplay of it and the higher authority is notified under
\* ShouldNotify
DashboardRow ==
    /\ sla.loaded
    /\ sla.renders < MaxRenders
    /\ LET extendedComplaint ==
               [sla EXCEPT !.escalatedToHigherAuthority = FALSE]
           shown == [sla EXCEPT
                       !.renders = @ + 1,
                       !.display = getSLAStatusDisplay(extendedComplaint,
                                                       sla.now),
                       !.displayAt = sla.now]
       IN sla' = IF ShouldNotify(extendedComplaint, sla.now)
                 THEN notifyHigherAuthority(shown, sla.now)
                 ELSE shown
    /\ UNCHANGED <<complaints, statusHistory, fcmTokens, notificationLogs,
                   sends, calls, triggers, returned, faults, cleanupJob,
                   proofModal, statsListener>>

\* checkAndNotifyBreaches([complaint]) is called: the filter, and for a
\* complaint that passes it the invocation of notifyHigherAuthority, up to
\* the await
CheckStart ==
    /\ sla.loaded
    /\ sla.checks < MaxChecks
    /\ LET counted == [sla EXCEPT !.checks = @ + 1]
       IN sla' = IF ShouldNotify(sla, sla.now)
                 THEN notifyHigherAuthority(
                          [counted EXCEPT !.checking = @ + 1], sla.now)
                 ELSE counted
    /\ UNCHANGED <<complaints, statusHistory, fcmTokens, notificationLogs,
                   sends, calls, triggers, returned, faults, cleanupJob,
                   proofModal, statsListener>>

\* a call of checkAndNotifyBreaches resumes after its await and marks the
\* complaint object as escalated
CheckMark ==
    /\ sla.checking > 0
    /\ sla' = [sla EXCEPT !.checking = @ - 1,
                          !.escalatedToHigherAuthority = TRUE]
    /\ UNCHANGED <<complaints, statusHistory, fcmTokens, notificationLogs,
                   sends, calls, triggers, returned, faults, cleanupJob,
                   proofModal, statsListener>>

\* clock advances between two looks at the Dashboard: half a second, a
\* second, 47 seconds (milliseconds)
EscalationSteps == {500, 1000, 47000}

\* ------------------------------------------------------------ specification
\* the notification pipeline: one admin session, the citizen's token record,
\* the trigger handler
Next ==
    \/ \E id \in ComplaintIds : CreateComplaint(id)
    \/ \E i \in Admins, id \in ComplaintIds, s \in ComplaintStatus :
         StatusStart(i, id, DropdownInput(s))
    \/ \E i \in Admins, id \in ComplaintIds, in \in NotifyInputs :
         NotifyStart(i, id, in)
    \/ \E i \in Admins, type \in NotificationTypes :
         sendTestNotification(i, type)
    \/ \E i \in Admins : UpdGetDoc(i)
    \/ \E i \in Admins : UpdUpdateDoc(i)
    \/ \E i \in Admins : UpdAddHistory(i)
    \/ \E i \in Admins : triggerNotification(i)
    \/ \E i \in Admins : SendLookup(i)
    \/ \E i \in Admins : SendLogSent(i)
    \/ \E i \in Admins : SendLogFailed(i)
    \/ \E t \in triggers : TriggerStart(t)
    \/ \E t \in triggers : TriggerSend(t)
    \/ \E t \in triggers : TriggerLogSent(t)
    \/ \E token \in Tokens : saveTokenToFirestore(token)
    \/ removeToken

Spec == Init /\ [][Next]_vars

\* documents a change event can carry: before the write (none for a
\* creation) and after it (none for a deletion, userId possibly missing)
BeforeDocs ==
    {NoComplaint} \cup
    { [NoComplaint EXCEPT !.exists = TRUE, !.status = st, !.userId = UserId] :
        st \in ComplaintStatus }

AfterDocs ==
    {NoComplaint} \cup
    { [NoComplaint EXCEPT !.exists = TRUE, !.status = st, !.userId = u] :
        st \in ComplaintStatus, u \in {UserId, Undefined} }

\* no admin session is open
InitTrigger ==
    /\ EmptyStore
    /\ calls = [i \in Admins |-> OffCall]

\* the platform invokes onComplaintStatusChange for a write of
\* complaints/{complaintId} (one change event in a behaviour)
onWrite(id, before, after) ==
    /\ triggers = {}
    /\ returned = NoTrigger
    /\ before.exists \/ after.exists
    /\ complaints' = [complaints EXCEPT ![id] = after]
    /\ triggers' = {NewTrigger(id, before, after, 0, 0)}
    /\ UNCHANGED <<statusHistory, fcmTokens, notificationLogs, sends, calls,
                   returned, faults, sla, cleanupJob, proofModal,
                   statsListener>>

\* the platform delivers the change event of the invocation that returned
\* last once more
Redeliver ==
    /\ returned.pc = "done"
    /\ returned.attempt < MaxDeliveries
    /\ \A t \in triggers : t.attempt <= returned.attempt
    /\ triggers' = triggers \cup
         {[returned EXCEPT
             !.pc = "pending", !.type = Undefined, !.token = Undefined,
             !.tokenSeen = "none", !.sendTried = FALSE, !.sent = FALSE,
             !.result = "none", !.attempt = @ + 1,
             !.responses = IF returned.result = "response" THEN @ + 1 ELSE @]}
    /\ UNCHANGED <<complaints, statusHistory, fcmTokens, notificationLogs,
                   sends, calls, returned, faults, sla, cleanupJob,
                   proofModal, statsListener>>

\* onComplaintStatusChange alone, for every change event, delivered at
\* least once
NextTrigger ==
    \/ \E id \in ComplaintIds, before \in BeforeDocs, after \in AfterDocs :
         onWrite(id, before, after)
    \/ Redeliver
    \/ \E t \in triggers : TriggerStart(t)
    \/ \E t \in triggers : TriggerSend(t)
    \/ \E t \in triggers : TriggerLogSent(t)
    \/ \E token \in Tokens : saveTokenToFirestore(token)
    \/ removeToken

SpecTrigger == InitTrigger /\ [][NextTrigger]_vars

\* the callable endpoint and the citizen's token record
NextCustom ==
    \/ \E i \in Admins, auth \in BOOLEAN, missing \in SUBSET RequiredFields,
          type \in RequestTypes :
         CustomStart(i, auth, missing, type)
    \/ \E i \in Admins : CustomSend(i)
    \/ \E i \in Admins : CustomLog(i)
    \/ \E token \in Tokens : saveTokenToFirestore(token)
    \/ removeToken

SpecCustom == Init /\ [][NextCustom]_vars

\* the scheduled cleanup beside the trigger handler that writes the log
NextCleanup ==
    \/ \E id \in ComplaintIds : CreateComplaint(id)
    \/ Redeliver
    \/ \E t \in triggers : TriggerStart(t)
    \/ \E t \in triggers : TriggerSend(t)
    \/ \E t \in triggers : TriggerLogSent(t)
    \/ \E token \in Tokens : saveTokenToFirestore(token)
    \/ \E n \in DaySteps : TickDays(n)
    \/ CleanupQuery
    \/ CleanupCommit

SpecCleanup == InitTrigger /\ [][NextCleanup]_vars

\* the SLA functions under an advancing wall clock
NextSLA ==
    \/ \E status \in ComplaintStatus, priority \in Priorities :
         SLALoad(status, priority)
    \/ \E d \in ClockSteps : Tick(d)
    \/ SLAEvaluate

SpecSLA == InitTrigger /\ [][NextSLA]_vars

\* the escalation to the higher authority: one complaint on the Dashboard,
\* rendered and checked while the wall clock advances
NextEscalation ==
    \/ \E status \in DashboardStatuses : SLALoad(status, Undefined)
    \/ \E d \in EscalationSteps : Tick(d)
    \/ DashboardRow
    \/ CheckStart
    \/ CheckMark

SpecEscalation == InitTrigger /\ [][NextEscalation]_vars

\* one subscription of listenToDashboardStats
NextListener ==
    \/ listenToDashboardStats
    \/ TimerTick
    \/ FetchSettles
    \/ unsubscribe

SpecListener == InitTrigger /\ [][NextListener]_vars

\* the status service and the dropdowns alone, with every statusData
NextStatus ==
    \/ \E id \in ComplaintIds : CreateComplaint(id)
    \/ \E i \in Admins, id \in ComplaintIds, in \in StatusInputs :
         StatusStart(i, id, in)
    \/ \E i \in Admins : UpdUpdateDoc(i)
    \/ \E i \in Admins : UpdAddHistory(i)
    \/ \E i \in Admins, id \in ComplaintIds, s \in ComplaintStatus :
         DebugStart(i, id, s)
    \/ \E i \in Admins : DebugUpdateDoc(i)

SpecStatus == InitStatus /\ [][NextStatus]_vars

\* resolving a complaint with proof: the dropdown, the modal and the status
\* service
NextProof ==
    \/ \E id \in ComplaintIds : CreateComplaint(id)
    \/ \E i \in Admins, id \in ComplaintIds,
          s \in ComplaintStatus \ {"resolved"} :
         ~proofModal.isOpen /\ StatusStart(i, id, DropdownInput(s))
    \/ \E i \in Admins, id \in ComplaintIds : ShowProofModal(i, id)
    \/ \E file \in ImageValues \ {Undefined} : handleFileSelect(file)
    \/ \E notes \in TypedNotes : setNotes(notes)
    \/ handleSubmit
    \/ \E i \in Admins, id \in ComplaintIds : ProofConvert(i, id)
    \/ \E i \in Admins : UpdGetDoc(i)
    \/ \E i \in Admins : UpdUpdateDoc(i)
    \/ \E i \in Admins : UpdAddHistory(i)
    \/ \E i \in Admins : ProofReturn(i)
    \/ handleClose

SpecProof == InitStatus /\ [][NextProof]_vars

\* two admin sessions calling updateComplaintStatus at the same time
InitConcurrent ==
    /\ EmptyStore
    /\ calls = [i \in Admins |-> [IdleCall EXCEPT !.n = MaxConcurrentCalls]]

\* statusData of the concurrent calls: an assignment, a resolution with
\* proof, a closing without notes, a reopening with empty notes
ConcurrentInputs ==
    { [status |-> "in-progress", notes |-> "fixed", image |-> Undefined],
      [status |-> "resolved", notes |-> "fixed", image |-> "imgX"],
      [status |-> "closed", notes |-> Undefined, image |-> Undefined],
      [status |-> "submitted", notes |-> "", image |-> Undefined] }

NextConcurrent ==
    \/ \E id \in ComplaintIds : CreateComplaint(id)
    \/ \E i \in Admins, id \in ComplaintIds, in \in ConcurrentInputs :
         StatusStart(i, id, in)
    \/ \E i \in Admins : UpdUpdateDoc(i)
    \/ \E i \in Admins : UpdAddHistory(i)

SpecConcurrent == InitConcurrent /\ [][NextConcurrent]_vars

\* ------------------------------------------------------------------ claims
\* log entries written for the complaint write of call n of session i
LogsOfWrite(i, n, type) ==
    {k \in 1..Len(notificationLogs) :
        /\ notificationLogs[k].by = i
        /\ notificationLogs[k].n = n
        /\ notificationLogs[k].path \in {"direct", "trigger"}
        /\ notificationLogs[k].type = type}

\* C1: for a transition into in-progress made through updateStatusAndNotify
\* with the trigger handler running for the same write, the direct dispatch
\* and the trigger together create one acknowledgment entry, never two.
C1_ExactlyOneAcknowledgment ==
    \A i \in Admins :
        (/\ calls[i].op = "notify"
         /\ calls[i].status = "in-progress"
         /\ calls[i].wrote
         /\ calls[i].beforeStatus /= "in-progress")
        => Cardinality(LogsOfWrite(i, calls[i].n, "acknowledgment")) <= 1

\* what call n of session i has left in the store
WritesOfCall(i, n) ==
    Cardinality({k \in 1..Len(statusHistory) :
                   statusHistory[k].by = i /\ statusHistory[k].n = n})
    + Cardinality({k \in 1..Len(notificationLogs) :
                     /\ notificationLogs[k].by = i
                     /\ notificationLogs[k].n = n})
    + Cardinality({k \in 1..Len(sends) : sends[k].by = i /\ sends[k].n = n})
    + Cardinality({t \in triggers \cup {returned} :
                     t.pc /= "none" /\ t.cause = i /\ t.causeN = n})

\* C2: a status update whose existence read finds no complaint document
\* fails with the not-found error and has written nothing: no complaint
\* write (hence no trigger), no history entry, no log entry, no send.
C2_NotFoundWritesNothing ==
    \A i \in Admins :
        calls[i].sawMissing
        => /\ calls[i].pc = "done"
           /\ calls[i].result = "notfound"
           /\ ~calls[i].wrote
           /\ WritesOfCall(i, calls[i].n) = 0

C2_Witness ==
    \E i \in Admins :
        /\ calls[i].op = "notify"
        /\ calls[i].sawMissing
        /\ calls[i].result = "notfound"

\* C3: every log entry has a kind derivable from the write that triggered
\* it: confirmation for a creation with status submitted, acknowledgment
\* for a change into in-progress, resolution for a change into resolved.
C3_KindDerivableFromWrite ==
    \A k \in 1..Len(notificationLogs) :
        LET e == notificationLogs[k]
        IN /\ e.type \in NotificationTypes
           /\ e.wrote
           /\ e.type = "confirmation"
                => ~e.oldExists /\ e.newStatus = "submitted"
           /\ e.type = "acknowledgment"
                => /\ e.oldExists
                   /\ e.oldStatus /= "in-progress"
                   /\ e.newStatus = "in-progress"
           /\ e.type = "resolution"
                => /\ e.oldExists
                   /\ e.oldStatus /= "resolved"
                   /\ e.newStatus = "resolved"

\* history entries appended by call n of session i
HistoryOfCall(i, n) ==
    {k \in 1..Len(statusHistory) :
        statusHistory[k].by = i /\ statusHistory[k].n = n}

\* C4: a call of updateComplaintStatus that returned successfully has
\* appended exactly one history entry, with the status the complaint had
\* before the call and the target status.
C4_ExactlyOneHistoryEntry ==
    \A i \in Admins :
        (calls[i].op = "status" /\ calls[i].pc = "done"
         /\ calls[i].result = "ok")
        => /\ Cardinality(HistoryOfCall(i, calls[i].n)) = 1
           /\ \A k \in HistoryOfCall(i, calls[i].n) :
                /\ statusHistory[k].previousStatus = calls[i].beforeStatus
                /\ statusHistory[k].newStatus = calls[i].status

\* the complaint read back after a successful resolve with notes N and
\* image X holds exactly what the call passed
ReadBackEquals(i) ==
    LET doc == complaints[calls[i].id]
    IN /\ doc.status = "resolved"
       /\ doc.lastUpdateNotes = calls[i].notes
       /\ doc.resolvedImageBase64 = calls[i].image
       /\ doc.resolvedBy /= Undefined
       /\ doc.resolvedAt

\* a call updateComplaintStatus({status: resolved, notes: N, image: X})
\* with strings N and X has returned successfully
ResolvedReturned(i) ==
    /\ calls[i].op = "status"
    /\ calls[i].status = "resolved"
    /\ calls[i].notes /= Undefined
    /\ calls[i].image /= Undefined
    /\ calls[i].pc = "done"
    /\ calls[i].result = "ok"

\* C5 as stated: round trip of a resolve for every notes string N.
C5_RoundTripEveryNotes ==
    \A i \in Admins : ResolvedReturned(i) => ReadBackEquals(i)

\* C5: round trip of a resolve with a non-empty notes string N and image X:
\* the complaint read back has status resolved, lastUpdateNotes = N,
\* resolvedImageBase64 = X, resolvedBy and resolvedAt set.
C5_RoundTripNonEmptyNotes ==
    \A i \in Admins :
        (ResolvedReturned(i) /\ calls[i].notes /= "") => ReadBackEquals(i)

C5_Witness ==
    \E i \in Admins :
        /\ ResolvedReturned(i)
        /\ calls[i].notes = "fixed"
        /\ calls[i].image = "imgX"
        /\ complaints[calls[i].id].resolvedImageBase64 = "imgX"

\* C6: a complaint whose status is resolved has non-empty resolution notes
\* and a stored resolution image.
C6_ResolvedHasNotesAndImage ==
    \A id \in ComplaintIds :
        (complaints[id].exists /\ complaints[id].status = "resolved")
        => /\ Truthy(complaints[id].lastUpdateNotes)
           /\ Truthy(complaints[id].resolvedImageBase64)

\* C7: every log entry with status sent has a send request behind it,
\* submitted to the messaging service for the same complaint and token.
C7_SentEntryHasSend ==
    \A k \in 1..Len(notificationLogs) :
        notificationLogs[k].status = "sent"
        => \E m \in 1..Len(sends) :
             /\ sends[m].token = notificationLogs[k].fcmToken
             /\ sends[m].complaintId = notificationLogs[k].complaintId
             /\ sends[m].type = notificationLogs[k].type

\* log entries and sends of the dispatch made for call n of session i on
\* one path
DispatchTraces(path, i, n) ==
    Cardinality({k \in 1..Len(notificationLogs) :
                   /\ notificationLogs[k].path = path
                   /\ notificationLogs[k].by = i
                   /\ notificationLogs[k].n = n})
    + (IF path = "trigger"
       THEN Cardinality({k \in 1..Len(sends) :
                           sends[k].by = i /\ sends[k].n = n})
       ELSE 0)

\* C8: a dispatch whose token lookup finds no record, or an inactive one,
\* is a no-op on both paths: no send, no log entry, no error; the client
\* call resolves and the trigger handler returns null.
C8_NoTokenIsNoOp ==
    /\ \A i \in Admins :
         calls[i].tokenSeen \in {"absent", "inactive"}
         => /\ calls[i].pc = "done"
            /\ calls[i].result = "ok"
            /\ DispatchTraces(IF calls[i].op = "test" THEN "test" ELSE "direct",
                              i, calls[i].n) = 0
    /\ returned.tokenSeen \in {"absent", "inactive"}
         => /\ returned.result = "null"
            /\ DispatchTraces("trigger", returned.cause, returned.causeN) = 0

C8_Witness ==
    /\ \E i \in Admins :
         /\ calls[i].op = "notify"
         /\ calls[i].wrote
         /\ calls[i].tokenSeen = "inactive"
         /\ calls[i].result = "ok"
    /\ returned.tokenSeen = "absent"

\* C9: once the complaint write of updateStatusAndNotify has succeeded,
\* the call never rejects, the written status and the history entry stay,
\* and the dispatch is made at most once.
C9_DispatchFailureIsContained ==
    \A i \in Admins :
        (calls[i].op = "notify" /\ calls[i].wrote)
        => /\ calls[i].pc = "done" => calls[i].result = "ok"
           /\ complaints[calls[i].id].status = calls[i].status
           /\ calls[i].hist
                => \E k \in HistoryOfCall(i, calls[i].n) :
                     statusHistory[k].newStatus = calls[i].status
           /\ calls[i].lookups <= 1
           /\ DispatchTraces("direct", i, calls[i].n) <= 1

C9_Witness ==
    \E i \in Admins :
        /\ calls[i].op = "notify"
        /\ calls[i].wrote
        /\ calls[i].hist
        /\ calls[i].tokenSeen = "failed"
        /\ calls[i].pc = "done"
        /\ calls[i].result = "ok"

\* C10: when the messaging service rejects the send of an invocation, the
\* handler appends exactly one failed entry for the complaint, sends
\* nothing more and returns null.
C10_RejectedSendIsLoggedOnce ==
    (returned.pc = "done" /\ returned.sendTried /\ ~returned.sent)
    => /\ returned.result = "null"
       /\ Cardinality({k \in 1..Len(notificationLogs) :
                         /\ notificationLogs[k].path = "trigger"
                         /\ notificationLogs[k].by = returned.cause
                         /\ notificationLogs[k].n = returned.causeN
                         /\ notificationLogs[k].status = "failed"}) = 1
       /\ Cardinality({k \in 1..Len(sends) :
                         /\ sends[k].by = returned.cause
                         /\ sends[k].n = returned.causeN}) = 1

\* C11: when the updateDoc of the complaint is rejected inside
\* updateComplaintStatus, the call (and updateStatusAndNotify around it)
\* ends with an error, the complaint is not written, no history entry is
\* appended and no notification is dispatched or logged for the attempt.
C11_WriteFailurePropagates ==
    \A i \in Admins :
        calls[i].writeRejected
        => /\ calls[i].pc = "done"
           /\ calls[i].result = "error"
           /\ ~calls[i].wrote
           /\ calls[i].lookups = 0
           /\ WritesOfCall(i, calls[i].n) = 0

C11_Witness ==
    \E i \in Admins :
        /\ calls[i].op = "notify"
        /\ calls[i].writeRejected
        /\ calls[i].pc = "done"
        /\ fcmTokens.isActive

\* no notification kind applies to the change event of invocation t: the
\* document was deleted, has no submitter, or is an update that leaves the
\* status unchanged or sets it to closed or submitted
NoKindApplies(t) ==
    \/ ~t.newExists
    \/ t.userId = Undefined
    \/ /\ t.oldExists
       /\ \/ t.oldStatus = t.newStatus
          \/ t.newStatus \in {"closed", "submitted"}

\* C12: for a change event to which no notification kind applies, the
\* handler returns null without reading the token record, without a send
\* and without a log entry.
C12_NoKindDoesNothing ==
    /\ \A t \in triggers : NoKindApplies(t) => t.pc = "pending"
    /\ (returned.pc = "done" /\ NoKindApplies(returned))
         => /\ returned.result = "null"
            /\ returned.tokenSeen = "none"
            /\ ~returned.sendTried
            /\ notificationLogs = <<>>
            /\ sends = <<>>

C12_Witness ==
    /\ returned.pc = "done"
    /\ returned.oldExists
    /\ returned.oldStatus = "in-progress"
    /\ returned.newStatus = "in-progress"
    /\ returned.userId = UserId
    /\ fcmTokens.isActive

\* invocations of onComplaintStatusChange for the complaint write of call
\* n of session i
TriggersOfWrite(i, n) ==
    {t \in triggers \cup {returned} :
        t.pc /= "none" /\ t.cause = i /\ t.causeN = n}

\* C13: for a complaint write made by updateStatusAndNotify, the direct
\* dispatch and the trigger handler derive the same notification kind (or
\* both none) from the previous and the new status.
C13_SameKindOnBothPaths ==
    \A i \in Admins :
        (calls[i].op = "notify" /\ calls[i].wrote)
        => \A t \in TriggersOfWrite(i, calls[i].n) :
             TriggerType(t) = DirectType(calls[i].status)

\* log entries of kind type for complaint id
LogsOfKind(id, type) ==
    {k \in 1..Len(notificationLogs) :
        /\ notificationLogs[k].complaintId = id
        /\ notificationLogs[k].type = type}

\* the scenario has run: the complaint was created and the trigger sent for
\* the creation; session i assigned it through the orchestrator (the only
\* admin write), its dispatch found the active token, the trigger sent for
\* that write; every invocation has returned and nothing was rejected
AssignScenarioDone(i) ==
    LET c == calls[i]
    IN /\ c.op = "notify"
       /\ c.status = "in-progress"
       /\ c.wrote
       /\ c.pc = "done"
       /\ c.tokenSeen = "active"
       /\ complaints[c.id].writes = 1
       /\ triggers = {}
       /\ faults = 0
       /\ \E m \in 1..Len(sends) :
            sends[m].by = 0 /\ sends[m].complaintId = c.id /\ sends[m].accepted
       /\ \E m \in 1..Len(sends) :
            sends[m].by = i /\ sends[m].n = c.n /\ sends[m].accepted

\* C14: after creation (trigger fires once) and assignment through the
\* orchestrator (trigger fires once), with an active token and successful
\* sends, the log of the complaint holds one confirmation entry and two
\* acknowledgment entries, one of each path.
C14_OneConfirmationTwoAcknowledgments ==
    \A i \in Admins :
        AssignScenarioDone(i)
        => /\ Cardinality(LogsOfKind(calls[i].id, "confirmation")) = 1
           /\ Cardinality(LogsOfKind(calls[i].id, "acknowledgment")) = 2
           /\ \E k \in LogsOfKind(calls[i].id, "acknowledgment") :
                notificationLogs[k].path = "direct"
           /\ \E k \in LogsOfKind(calls[i].id, "acknowledgment") :
                notificationLogs[k].path = "trigger"
           /\ Cardinality(LogsOfKind(calls[i].id, "resolution")) = 0

C14_Witness == \E i \in Admins : AssignScenarioDone(i)

\* the change event of the invocation that returned last has been delivered
\* returned.attempt times, every delivery found the active token and ended
\* with a sent notification, and no further delivery is under way
AllDeliveriesResponded ==
    /\ returned.pc = "done"
    /\ returned.result = "response"
    /\ returned.responses = returned.attempt - 1
    /\ triggers = {}

\* C15: the handler is not idempotent: invoked n times for the same
\* qualifying write, with an active token and successful sends, it submits
\* n send requests and appends n log entries of the same kind.
C15_EveryDeliverySendsAndLogs ==
    AllDeliveriesResponded
    => /\ Len(sends) = returned.attempt
       /\ Len(notificationLogs) = returned.attempt
       /\ \A m \in 1..Len(sends) :
            /\ sends[m].accepted
            /\ sends[m].type = returned.type
            /\ sends[m].complaintId = returned.id
       /\ \A k \in 1..Len(notificationLogs) :
            /\ notificationLogs[k].status = "sent"
            /\ notificationLogs[k].type = returned.type
            /\ notificationLogs[k].complaintId = returned.id

C15_Witness ==
    /\ AllDeliveriesResponded
    /\ returned.attempt = 2
    /\ returned.type = "acknowledgment"
    /\ Len(notificationLogs) = 2

\* both admins have called updateComplaintStatus on the same complaint,
\* both calls have returned successfully and no store operation was rejected
BothUpdated ==
    /\ \A i \in Admins :
         /\ calls[i].op = "status"
         /\ calls[i].pc = "done"
         /\ calls[i].result = "ok"
    /\ calls[1].id = calls[2].id
    /\ faults = 0

\* the complaint holds the fields that the call of session w wrote
HoldsFieldsOf(w) ==
    LET c == calls[w]
        doc == complaints[c.id]
    IN /\ doc.status = c.status
       /\ doc.updatedBy = AdminOf(w)
       /\ Truthy(c.notes) => doc.lastUpdateNotes = c.notes
       /\ c.status = "resolved"
            => /\ doc.resolvedImageBase64 = c.image
               /\ doc.resolvedBy = AdminOf(w)
               /\ doc.resolvedAt

\* C16: two admins update the same complaint concurrently; in every
\* interleaving the complaint ends with the status and update fields of the
\* write applied last, and two history entries, one per call, are kept.
C16_LastWriterWinsBothEntriesKept ==
    BothUpdated
    => /\ complaints[calls[1].id].writer \in Admins
       /\ HoldsFieldsOf(complaints[calls[1].id].writer)
       /\ \A i \in Admins : Cardinality(HistoryOfCall(i, calls[i].n)) = 1
       /\ \A i \in Admins : \A k \in HistoryOfCall(i, calls[i].n) :
            /\ statusHistory[k].complaintId = calls[i].id
            /\ statusHistory[k].newStatus = calls[i].status

\* both calls read the complaint before either wrote it, and the write of
\* session 1 was applied after the write of session 2
C16_Witness ==
    /\ BothUpdated
    /\ calls[1].status = "in-progress"
    /\ calls[2].status = "resolved"
    /\ calls[1].previousStatus = "submitted"
    /\ calls[2].previousStatus = "submitted"
    /\ complaints[calls[1].id].writer = 1

\* history entries kept for complaint id
HistoryOfComplaint(id) ==
    {k \in 1..Len(statusHistory) : statusHistory[k].complaintId = id}

\* C17: every status write an admin session applies to a complaint has
\* its history entry: once no call is between its complaint write and its
\* history entry, the complaint has as many history entries as status
\* writes.
C17_OneHistoryEntryPerStatusWrite ==
    \A id \in ComplaintIds :
        (\A i \in Admins : calls[i].pc /= "addHistory")
        => Cardinality(HistoryOfComplaint(id)) = complaints[id].writes

\* the log entry of the custom notification of call n of session i
CustomLogged(i, n) ==
    \E k \in 1..Len(notificationLogs) :
        /\ notificationLogs[k].path = "custom"
        /\ notificationLogs[k].by = i
        /\ notificationLogs[k].n = n

\* C18: sendCustomNotification answers with success or with the error kind
\* of the cause: unauthenticated without an authenticated caller,
\* invalid-argument when a required field is missing, not-found without a
\* token record, failed-precondition for an inactive record, internal when
\* the token read, the send or the log write fails.
C18_ErrorKindReflectsCause ==
    \A i \in Admins :
        (calls[i].op = "custom" /\ calls[i].pc = "done")
        => calls[i].result =
             IF ~calls[i].auth THEN "unauthenticated"
             ELSE IF calls[i].missing /= {} THEN "invalid-argument"
             ELSE IF calls[i].tokenSeen = "absent" THEN "not-found"
             ELSE IF calls[i].tokenSeen = "inactive" THEN "failed-precondition"
             ELSE IF calls[i].tokenSeen = "failed" THEN "internal"
             ELSE IF CustomLogged(i, calls[i].n) THEN "success"
             ELSE "internal"

\* C19: evaluated on a complaint whose status is resolved, isSLABreached of
\* SLANotificationService and of DashboardStatsService both return false,
\* whatever time has passed since the creation.
C19_ResolvedNeverBreached ==
    (sla.seen /\ sla.status = "resolved")
    => /\ ~sla.breached
       /\ ~sla.breachedStats

\* the remaining time at the last two evaluations, the clock not having
\* gone back in between
Readings ==
    /\ sla.seenTwice
    /\ sla.prevAt <= sla.at

\* C20: at successive non-decreasing clock readings getSecondsUntilDeadline
\* returns non-increasing values, is never negative, is 0 when exactly 48
\* seconds have passed since the creation and stays 0 afterwards.
C20_DeadlineCountsDownToZero ==
    /\ sla.seen => sla.left >= 0
    /\ Readings => sla.left <= sla.prevLeft
    /\ (sla.seen /\ sla.at - sla.createdAt = 48 * 1000) => sla.left = 0
    /\ (sla.seen /\ sla.at - sla.createdAt >= 48 * 1000) => sla.left = 0
    /\ (Readings /\ sla.prevLeft = 0) => sla.left = 0

\* the deadline was still ahead at one evaluation and was met exactly at
\* the next
C20_Witness ==
    /\ Readings
    /\ sla.prevLeft > 0
    /\ sla.at - sla.createdAt = 48 * 1000
    /\ sla.left = 0

\* C21: over any sequence of checkAndNotifyBreaches calls and Dashboard
\* renders in one session, notifyHigherAuthority is invoked at most once for
\* the complaint, and never while its SLA is not breached.
C21_NotifiedAtMostOnceAndOnlyBreached ==
    /\ sla.notified <= 1
    /\ ~sla.notifiedUnbreached

\* C27: the higher authority is never notified for a complaint whose
\* status is the value resolved of ComplaintStatus, however long ago the
\* complaint was created.
C27_ResolvedNeverEscalated ==
    sla.status = "resolved" => sla.notified = 0

\* C30: at every clock reading isSLABreached is true exactly when
\* getSecondsUntilDeadline is 0, evaluated on the same complaint at the same
\* instant, so getSLAStatusDisplay never shows 0 seconds left.
C30_BreachedIffNoTimeLeft ==
    /\ sla.loaded
         => (isSLABreached(sla, sla.now)
               <=> getSecondsUntilDeadline(sla, sla.now) = 0)
    /\ ~(sla.display.text = "left" /\ sla.display.seconds = 0)

\* the Device Token Record is deactivated: the user logged out and has not
\* opted in again
LoggedOut == fcmTokens.exists /\ ~fcmTokens.isActive

\* a step that deactivates the record keeps the record and its token
DeactivationKeepsRecord ==
    (fcmTokens.isActive /\ ~fcmTokens'.isActive)
    => /\ fcmTokens'.exists
       /\ fcmTokens'.token = fcmTokens.token

\* what the dispatch (path, by, n) got as the answer of its token read
DispatchSaw(path, by, n) ==
    IF path = "trigger"
    THEN { t.tokenSeen : t \in { u \in triggers :
                                   /\ u.cause = by /\ u.causeN = n
                                   /\ u.pc \in {"send", "logSent"} } }
    ELSE { calls[by].tokenSeen }

\* the step hands a send request to the messaging service
Sends == Len(sends') > Len(sends)

\* the step appends a Notification Log Entry
Logs == Len(notificationLogs') > Len(notificationLogs)

LogKinds == {"confirmation", "acknowledgment", "resolution", "custom"}

LogStatuses == {"sent", "failed", "delivered"}

\* C23: in every reachable state each Notification Log Entry has a
\* notification kind in LogKinds and a delivery status in LogStatuses,
\* whichever path wrote it.
C23_LogEntriesWellFormed ==
    \A k \in 1..Len(notificationLogs) :
        /\ notificationLogs[k].type \in LogKinds
        /\ notificationLogs[k].status \in LogStatuses

\* timestamp `at` lies more than 30 days before the timestamp `run`
MoreThan30DaysBefore(at, run) ==
    \/ at.days + 30 < run.days
    \/ at.days + 30 = run.days /\ at.ms < run.ms

\* the entries of the log that are not more than 30 days older than the
\* start of the run
KeptByRun(run) ==
    SelectSeq(notificationLogs,
              LAMBDA e : ~MoreThan30DaysBefore(e.sentAt, run))

\* C24: a run of cleanupNotificationLogs (its query and its commit
\* accepted) deletes exactly the Notification Log Entries whose sent
\* timestamp is more than 30 days before the run and keeps every other
\* entry; no step of the job changes complaints, statusHistory or fcmTokens;
\* a run that finds no entry old enough changes nothing, and a run reports
\* nothing to delete only when no entry is old enough.
C24_CleanupDeletesExactlyOldLogs ==
    [][cleanupJob' /= cleanupJob
       => /\ UNCHANGED <<complaints, statusHistory, fcmTokens>>
          /\ notificationLogs' =
               IF cleanupJob'.result = "deleted"
               THEN KeptByRun(cleanupJob.startedAt)
               ELSE notificationLogs
          /\ cleanupJob'.result = "empty"
               => KeptByRun(cleanupJob'.startedAt) = notificationLogs
          /\ cleanupJob'.pc = "commit"
               => KeptByRun(cleanupJob'.startedAt) /= notificationLogs]_vars

\* a run has deleted one entry and kept another that was sent exactly 30
\* days before the run, with the complaint and the token record in place
C24_Witness ==
    /\ cleanupJob.result = "deleted"
    /\ cleanupJob.deleted = 1
    /\ Len(notificationLogs) = 1
    /\ notificationLogs[1].sentAt.days + 30 = cleanupJob.startedAt.days
    /\ notificationLogs[1].sentAt.ms = cleanupJob.startedAt.ms
    /\ complaints["ISS-0001"].exists
    /\ fcmTokens.exists

\* the messaging service accepted a send request of the invocation that
\* handled delivery `attempt` of the change event of write (by, n)
Delivered(by, n, attempt) ==
    \E j \in 1..Len(sends) :
        /\ sends[j].by = by
        /\ sends[j].n = n
        /\ sends[j].attempt = attempt
        /\ sends[j].accepted

C26_HistoryChainMatchesWrites ==
    \A k \in 1..Len(statusHistory) :
        LET h == statusHistory[k]
        IN (calls[h.by].op = "status" /\ calls[h.by].n = h.n)
           => h.previousStatus = calls[h.by].beforeStatus

\* the call of session i is the status update of the proof submission that
\* the modal has just finished
ProofCallDone(i) ==
    /\ proofModal.pc = "returned"
    /\ calls[i].op = "status"
    /\ calls[i].pc = "done"
    /\ calls[i].image /= Undefined

\* C28: when the status write of a proof submission fails, the modal stays
\* open, keeps the selected image and the notes and shows the error; the
\* form is reset and closed by a submission only after the complaint was
\* written as resolved.
C28_FailedProofKeepsForm ==
    \A i \in Admins :
        /\ (ProofCallDone(i) /\ calls[i].result /= "ok")
             => /\ proofModal.isOpen
                /\ proofModal.selectedFile = calls[i].image
                /\ proofModal.notes = calls[i].notes
                /\ proofModal.error /= Undefined
        /\ (ProofCallDone(i) /\ ~proofModal.isOpen)
             => /\ calls[i].wrote
                /\ complaints[calls[i].id].status = "resolved"

\* C29: once the unsubscribe function of listenToDashboardStats has been
\* called, the callback is not invoked again, whatever was in flight: the
\* initial load, timer ticks, statistics fetches; and the timer starts no
\* further fetch.
C29_NoCallbackAfterUnsubscribe ==
    /\ statsListener.lateCallbacks = 0
    /\ statsListener.unsubscribed => ~statsListener.interval

\* unsubscribe was called while two fetches were in flight, the initial
\* load and one started by the timer, after one callback; both fetches
\* have settled since
C29_Witness ==
    /\ statsListener.unsubscribed
    /\ statsListener.pendingAtUnsubscribe = 2
    /\ statsListener.callbacks = 1
    /\ statsListener.fetches = 0

====
